---- MODULE Spec2Model ----
(***************************************************************************)
(* METAR decoder (metar_decoder.py) and its Flask front end (app.py).      *)
(*                                                                         *)
(* Python strings are TLA+ strings; TLC evaluates Len, \o and SubSeq on    *)
(* them, so a character is a string of length 1 and a regular expression   *)
(* is a matcher over character positions.  Python lists are sequences.     *)
(***************************************************************************)
EXTENDS Integers, Sequences, FiniteSets, TLC

VARIABLES
    raw,                \* decode_metar: the argument raw_metar
    pc,                 \* decode_metar: position in the function body
    tokens,             \* decode_metar: raw_metar.strip().split()
    idx,                \* decode_metar: the cursor (0-based, as in the code)
    decoded,            \* decode_metar: the DecodedMetar being filled
    visibility_tokens,  \* decode_metar: local list
    weather_tokens,     \* decode_metar: local list
    cloud_tokens,       \* decode_metar: local list
    exc,                \* the exception decode_metar raised ("" when none)
    used,               \* per field, the token positions assigned to it
    call,               \* a direct call of a helper: [fn, arg]
    ret,                \* what that call returned
    app                 \* one request to the index route of app.py

vars == <<raw, pc, tokens, idx, decoded, visibility_tokens, weather_tokens,
          cloud_tokens, exc, used, call, ret, app>>

-----------------------------------------------------------------------------
(* Characters and strings                                                  *)

Ch(s, i) == IF 1 <= i /\ i <= Len(s) THEN SubSeq(s, i, i) ELSE ""

DigitChars == "0123456789"

UpperChars == "ABCDEFGHIJKLMNOPQRSTUVWXYZ"

LowerChars == "abcdefghijklmnopqrstuvwxyz"

IndexIn(alphabet, c) ==
    IF \E i \in 1..Len(alphabet) : Ch(alphabet, i) = c
    THEN CHOOSE i \in 1..Len(alphabet) : Ch(alphabet, i) = c
    ELSE 0

IsDigit(c) == IndexIn(DigitChars, c) > 0

DigitVal(c) == IndexIn(DigitChars, c) - 1

DigitChar(d) == Ch(DigitChars, d + 1)

\* str.isspace for the characters the inputs are built from
IsSpace(c) == c \in {" ", "\t", "\n", "\r"}

AllDigits(s, p, n) == \A k \in p..(p + n - 1) : IsDigit(Ch(s, k))

StartsWithAt(s, p, lit) ==
    /\ p >= 1
    /\ p + Len(lit) - 1 <= Len(s)
    /\ SubSeq(s, p, p + Len(lit) - 1) = lit

\* the length of the longest run of digits of s that starts at p
RECURSIVE DigitRun(_, _)
DigitRun(s, p) == IF IsDigit(Ch(s, p)) THEN 1 + DigitRun(s, p + 1) ELSE 0

RECURSIVE SpaceRun(_, _)
SpaceRun(s, p) == IF IsSpace(Ch(s, p)) THEN 1 + SpaceRun(s, p + 1) ELSE 0

\* sub in s
Contains(s, sub) ==
    \E i \in 1..(Len(s) - Len(sub) + 1) : SubSeq(s, i, i + Len(sub) - 1) = sub

LowerCh(c) ==
    IF IndexIn(UpperChars, c) > 0 THEN Ch(LowerChars, IndexIn(UpperChars, c)) ELSE c

UpperCh(c) ==
    IF IndexIn(LowerChars, c) > 0 THEN Ch(UpperChars, IndexIn(LowerChars, c)) ELSE c

\* str.lower
RECURSIVE Lower(_)
Lower(s) ==
    IF s = "" THEN ""
    ELSE IF Len(s) = 1 THEN LowerCh(s)
    ELSE LET half == Len(s) \div 2
         IN  Lower(SubSeq(s, 1, half)) \o Lower(SubSeq(s, half + 1, Len(s)))

\* str.upper
RECURSIVE Upper(_)
Upper(s) ==
    IF s = "" THEN ""
    ELSE IF Len(s) = 1 THEN UpperCh(s)
    ELSE LET half == Len(s) \div 2
         IN  Upper(SubSeq(s, 1, half)) \o Upper(SubSeq(s, half + 1, Len(s)))

\* str.capitalize: first character upper-cased, the rest lower-cased
Capitalize(s) ==
    IF s = "" THEN "" ELSE UpperCh(Ch(s, 1)) \o Lower(SubSeq(s, 2, Len(s)))

\* str.isalpha
IsAlpha(s) ==
    /\ s # ""
    /\ \A i \in 1..Len(s) :
          IndexIn(UpperChars, Ch(s, i)) > 0 \/ IndexIn(LowerChars, Ch(s, i)) > 0

\* str.strip(): leading and trailing whitespace removed
Strip_lstrip_only(s) == SubSeq(s, SpaceRun(s, 1) + 1, Len(s))

RECURSIVE TrailingSpaces(_, _)
TrailingSpaces(s, p) == IF IsSpace(Ch(s, p)) THEN 1 + TrailingSpaces(s, p - 1) ELSE 0

Strip(s) ==
    LET lead == SpaceRun(s, 1)
    IN  IF lead = Len(s) THEN ""
        ELSE SubSeq(s, lead + 1, Len(s) - TrailingSpaces(s, Len(s)))

\* the length of the longest run of non-whitespace of s that starts at p
RECURSIVE WordRun(_, _)
WordRun(s, p) ==
    IF p <= Len(s) /\ ~IsSpace(Ch(s, p)) THEN 1 + WordRun(s, p + 1) ELSE 0

\* str.split(): the maximal runs of non-whitespace, in order
RECURSIVE SplitFrom(_, _)
SplitFrom(s, p) ==
    IF p > Len(s) THEN <<>>
    ELSE IF IsSpace(Ch(s, p)) THEN SplitFrom(s, p + 1)
    ELSE <<SubSeq(s, p, p + WordRun(s, p) - 1)>> \o SplitFrom(s, p + WordRun(s, p))

Split(s) == SplitFrom(s, 1)

\* sep.join(list)
RECURSIVE Join(_, _)
Join(sep, list) ==
    IF Len(list) = 0 THEN ""
    ELSE IF Len(list) = 1 THEN list[1]
    ELSE list[1] \o sep \o Join(sep, Tail(list))

\* int(s) of a string of decimal digits
RECURSIVE ParseInt(_)
ParseInt(s) ==
    IF s = "" THEN 0
    ELSE ParseInt(SubSeq(s, 1, Len(s) - 1)) * 10 + DigitVal(Ch(s, Len(s)))

\* str(n) of an integer
RECURSIVE NatToStr(_)
NatToStr(n) ==
    IF n < 10 THEN DigitChar(n) ELSE NatToStr(n \div 10) \o DigitChar(n % 10)

IntToStr(n) == IF n < 0 THEN "-" \o NatToStr(-n) ELSE NatToStr(n)

\* n written with exactly w digits, zero-padded (n < 10^w)
RECURSIVE Padded(_, _)
Padded(n, w) == IF w = 0 THEN "" ELSE Padded(n \div 10, w - 1) \o DigitChar(n % 10)

\* format(n, ",") of a non-negative integer
RECURSIVE ThousandsSep(_)
ThousandsSep(n) ==
    IF n < 1000 THEN NatToStr(n)
    ELSE ThousandsSep(n \div 1000) \o "," \o Padded(n % 1000, 3)

\* round(n / d) as Python 3 rounds: to the nearest integer, a tie to the even one
RoundHalfEven(n, d) ==
    LET q == n \div d
        r == n % d
    IN  IF 2 * r < d THEN q
        ELSE IF 2 * r > d THEN q + 1
        ELSE IF q % 2 = 0 THEN q ELSE q + 1

Lookup(table, key) == (CHOOSE p \in table : p[1] = key)[2]

HasKey(table, key) == \E p \in table : p[1] = key

-----------------------------------------------------------------------------
(* Lookup tables                                                           *)

WEATHER_CODES ==
    { <<"-", "light">>, <<"+", "heavy">>, <<"VC", "in the vicinity">>,
      <<"MI", "shallow">>, <<"PR", "partial">>, <<"BC", "patches of">>,
      <<"DR", "low drifting">>, <<"BL", "blowing">>, <<"SH", "showers">>,
      <<"TS", "thunderstorm">>, <<"FZ", "freezing">>,
      <<"DZ", "drizzle">>, <<"RA", "rain">>, <<"SN", "snow">>,
      <<"SG", "snow grains">>, <<"IC", "ice crystals">>, <<"PL", "ice pellets">>,
      <<"GR", "hail">>, <<"GS", "small hail">>, <<"UP", "unknown precipitation">>,
      <<"BR", "mist">>, <<"FG", "fog">>, <<"FU", "smoke">>,
      <<"VA", "volcanic ash">>, <<"DU", "widespread dust">>, <<"SA", "sand">>,
      <<"HZ", "haze">>, <<"PY", "spray">>,
      <<"PO", "dust whirls">>, <<"SQ", "squalls">>, <<"FC", "funnel cloud">>,
      <<"SS", "sandstorm">>, <<"DS", "duststorm">> }

CLOUD_CODES ==
    { <<"SKC", "clear skies">>, <<"CLR", "clear skies">>, <<"FEW", "few clouds">>,
      <<"SCT", "scattered clouds">>, <<"BKN", "broken clouds">>,
      <<"OVC", "overcast">>, <<"VV", "vertical visibility">> }

\* (low, high) in half degrees, so that 22.5 is the integer 45; in the
\* dictionary's insertion order
COMPASS_DIRECTIONS ==
    << <<0, 45, "north">>, <<45, 135, "northeast">>, <<135, 225, "east">>,
       <<225, 315, "southeast">>, <<315, 405, "south">>, <<405, 495, "southwest">>,
       <<495, 585, "west">>, <<585, 675, "northwest">>, <<675, 720, "north">> >>

-----------------------------------------------------------------------------
(* Unit conversions                                                        *)

\* the first sector with low <= degrees < high, else 'variable'
degrees_to_direction(degrees) ==
    LET hits == { i \in 1..Len(COMPASS_DIRECTIONS) :
                    /\ COMPASS_DIRECTIONS[i][1] <= 2 * degrees
                    /\ 2 * degrees < COMPASS_DIRECTIONS[i][2] }
    IN  IF hits = {} THEN "variable"
        ELSE COMPASS_DIRECTIONS[CHOOSE i \in hits : \A j \in hits : i <= j][3]

\* round(knots * 1.15078) computed with truncation instead of rounding
knots_to_mph_truncating(knots) == (knots * 115078) \div 100000

\* round(knots * 1.15078).  The product is k * 115078 / 100000; its distance
\* from a half is at least 1/100000 for every k below 25000, far above the
\* error of the double-precision product, so the rational value decides.
knots_to_mph(knots) == RoundHalfEven(knots * 115078, 100000)

\* round((celsius * 9/5) + 32) = round((9 * celsius + 160) / 5)
celsius_to_fahrenheit(celsius) == RoundHalfEven(celsius * 9 + 160, 5)

-----------------------------------------------------------------------------
(* Regular expressions of the wind grammar                                 *)

\* (G\d{2,3})?KT at position q: the number of characters matched, 0 for none
GustKT(s, q) ==
    IF Ch(s, q) = "G" /\ AllDigits(s, q + 1, 3) /\ StartsWithAt(s, q + 4, "KT") THEN 6
    ELSE IF Ch(s, q) = "G" /\ AllDigits(s, q + 1, 2) /\ StartsWithAt(s, q + 3, "KT") THEN 5
    ELSE IF StartsWithAt(s, q, "KT") THEN 2
    ELSE 0

\* \d{2,3} at p followed by (G\d{2,3})?KT: the number of speed digits (the
\* greedy 3 first), 0 for no match
SpeedThenGustKT(s, p) ==
    IF AllDigits(s, p, 3) /\ GustKT(s, p + 3) > 0 THEN 3
    ELSE IF AllDigits(s, p, 2) /\ GustKT(s, p + 2) > 0 THEN 2
    ELSE 0

\* re.match(r'(VRB|\d{3})\d{2,3}(G\d{2,3})?KT', token)
IsWindToken(token) ==
    /\ StartsWithAt(token, 1, "VRB") \/ AllDigits(token, 1, 3)
    /\ SpeedThenGustKT(token, 4) > 0

\* re.match(r'VRB(\d{2,3})KT', wind_str): the number of speed digits, 0 for none
VrbMatch(wind_str) ==
    IF ~StartsWithAt(wind_str, 1, "VRB") THEN 0
    ELSE IF AllDigits(wind_str, 4, 3) /\ StartsWithAt(wind_str, 7, "KT") THEN 3
    ELSE IF AllDigits(wind_str, 4, 2) /\ StartsWithAt(wind_str, 6, "KT") THEN 2
    ELSE 0

\* re.match(r'(\d{3})(\d{2,3})(G(\d{2,3}))?KT', wind_str): the number of speed
\* digits, 0 for none
StdWindMatch(wind_str) ==
    IF AllDigits(wind_str, 1, 3) THEN SpeedThenGustKT(wind_str, 4) ELSE 0

\* re.match(r'\d{3}V\d{3}', token)
IsWindVariability(token) ==
    AllDigits(token, 1, 3) /\ Ch(token, 4) = "V" /\ AllDigits(token, 5, 3)

parse_wind(wind_str) ==
    IF wind_str = "" THEN "Wind information not available"
    ELSE IF VrbMatch(wind_str) > 0 THEN
        LET speed_kt == ParseInt(SubSeq(wind_str, 4, 3 + VrbMatch(wind_str)))
            speed_mph == knots_to_mph(speed_kt)
        IN  IF speed_kt = 0 THEN "Calm winds"
            ELSE "Variable wind at " \o IntToStr(speed_mph) \o " mph"
    ELSE IF StdWindMatch(wind_str) > 0 THEN
        LET n == StdWindMatch(wind_str)
            direction == ParseInt(SubSeq(wind_str, 1, 3))
            speed_kt == ParseInt(SubSeq(wind_str, 4, 3 + n))
            g == GustKT(wind_str, 4 + n)
            \* group 4 is None when the gust group did not take part
            gust_kt == IF g > 2 THEN ParseInt(SubSeq(wind_str, 5 + n, n + g + 1)) ELSE 0
            result == "Wind from the " \o degrees_to_direction(direction)
                        \o " at " \o IntToStr(knots_to_mph(speed_kt)) \o " mph"
        IN  IF speed_kt = 0 THEN "Calm winds"
            ELSE IF gust_kt # 0
                 THEN result \o ", gusting to " \o IntToStr(knots_to_mph(gust_kt)) \o " mph"
                 ELSE result
    ELSE IF wind_str = "00000KT" THEN "Calm winds"
    ELSE "Wind: " \o wind_str

-----------------------------------------------------------------------------
(* Visibility                                                              *)

\* re.match(r'\d+SM', s)
IsWholeMilesToken(s) ==
    DigitRun(s, 1) >= 1 /\ StartsWithAt(s, DigitRun(s, 1) + 1, "SM")

\* \d+/\d+SM at position p
FractionAt(s, p) ==
    LET n == DigitRun(s, p)
        m == DigitRun(s, p + n + 1)
    IN  /\ n >= 1
        /\ Ch(s, p + n) = "/"
        /\ m >= 1
        /\ StartsWithAt(s, p + n + 1 + m, "SM")

\* re.match(r'\d+/\d+SM', s)
IsFractionToken(s) == FractionAt(s, 1)

\* re.match(r'\d{4}', s) and len(s) == 4
IsMetersToken(s) == AllDigits(s, 1, 4) /\ Len(s) = 4

\* the condition of the visibility loop: A or B or (C and len == 4)
IsVisibilityToken(s) ==
    IsWholeMilesToken(s) \/ IsFractionToken(s) \/ IsMetersToken(s)

\* re.match(r'((\d+)\s+)?(\d+)/(\d+)SM', vis_str): where the fraction starts
\* (after the optional whole part and its whitespace), 0 for no match
FracMatchStart(vis_str) ==
    LET d == DigitRun(vis_str, 1)
        w == SpaceRun(vis_str, d + 1)
    IN  IF d >= 1 /\ w >= 1 /\ FractionAt(vis_str, d + w + 1) THEN d + w + 1
        ELSE IF FractionAt(vis_str, 1) THEN 1
        ELSE 0

FracWhole(vis_str) ==
    IF FracMatchStart(vis_str) > 1
    THEN ParseInt(SubSeq(vis_str, 1, DigitRun(vis_str, 1)))
    ELSE 0

FracNum(vis_str) ==
    LET p == FracMatchStart(vis_str)
    IN  ParseInt(SubSeq(vis_str, p, p + DigitRun(vis_str, p) - 1))

FracDenom(vis_str) ==
    LET p == FracMatchStart(vis_str)
        q == p + DigitRun(vis_str, p) + 1
    IN  ParseInt(SubSeq(vis_str, q, q + DigitRun(vis_str, q) - 1))

\* the digits after the decimal point of r / d (0 <= r < d)
RECURSIVE FractionDigits(_, _, _)
FractionDigits(r, d, left) ==
    IF r = 0 \/ left = 0 THEN ""
    ELSE DigitChar((r * 10) \div d) \o FractionDigits((r * 10) % d, d, left - 1)

\* repr(whole + num / denom) for a quotient whose decimal expansion ends (a
\* denominator that is a power of two): the float is exact and repr writes it
\* out in full
FloatRepr(n, d) ==
    LET digits == FractionDigits(n % d, d, 16)
    IN  NatToStr(n \div d) \o "." \o (IF digits = "" THEN "0" ELSE digits)

\* whether parse_visibility raises: num / denom with denom 0 is ZeroDivisionError
parse_visibility_raises(vis_str) ==
    /\ vis_str # ""
    /\ ~IsWholeMilesToken(vis_str)
    /\ FracMatchStart(vis_str) > 0
    /\ FracDenom(vis_str) = 0

parse_visibility(vis_str) ==
    IF vis_str = "" THEN ""
    ELSE IF IsWholeMilesToken(vis_str) THEN
        LET miles == ParseInt(SubSeq(vis_str, 1, DigitRun(vis_str, 1)))
        IN  IF miles >= 10 THEN "Visibility 10 miles or more (excellent)"
            ELSE IF miles >= 6 THEN "Visibility " \o IntToStr(miles) \o " miles (good)"
            ELSE IF miles >= 3 THEN "Visibility " \o IntToStr(miles) \o " miles (moderate)"
            ELSE "Visibility " \o IntToStr(miles) \o " miles (poor)"
    ELSE IF FracMatchStart(vis_str) > 0 THEN
        LET whole == FracWhole(vis_str)
            num == FracNum(vis_str)
            denom == FracDenom(vis_str)
        IN  "Visibility " \o FloatRepr(whole * denom + num, denom) \o " miles (reduced)"
    ELSE IF AllDigits(vis_str, 1, 4) THEN
        \* meters / 1609.34 to one decimal: tenths = round(meters * 1000 / 160934)
        LET meters == ParseInt(SubSeq(vis_str, 1, 4))
            tenths == RoundHalfEven(meters * 1000, 160934)
        IN  "Visibility " \o NatToStr(tenths \div 10) \o "." \o DigitChar(tenths % 10)
                \o " miles"
    ELSE "Visibility: " \o vis_str

-----------------------------------------------------------------------------
(* Weather phenomena                                                       *)

Descriptors == {"MI", "PR", "BC", "DR", "BL", "SH", "TS", "FZ"}

Phenomena ==
    {"DZ", "RA", "SN", "SG", "IC", "PL", "GR", "GS", "UP", "BR", "FG", "FU",
     "VA", "DU", "SA", "HZ", "PY", "PO", "SQ", "FC", "SS", "DS"}

\* (DZ|RA|...)+$ from position p: one or more phenomenon codes up to the end
RECURSIVE PhenomenaToEnd(_, _)
PhenomenaToEnd(s, p) ==
    /\ p + 1 <= Len(s)
    /\ SubSeq(s, p, p + 1) \in Phenomena
    /\ p + 1 = Len(s) \/ PhenomenaToEnd(s, p + 2)

\* the pattern without its end anchor: one phenomenon code after the optional
\* parts is enough, whatever follows it
IsWeatherToken_unanchored(token) ==
    LET p1 == IF Ch(token, 1) \in {"-", "+"} THEN 2 ELSE 1
        p2 == IF StartsWithAt(token, p1, "VC") THEN p1 + 2 ELSE p1
        p3 == IF p2 + 1 <= Len(token) /\ SubSeq(token, p2, p2 + 1) \in Descriptors
              THEN p2 + 2 ELSE p2
    IN  \/ p3 + 1 <= Len(token) /\ SubSeq(token, p3, p3 + 1) \in Phenomena
        \/ p2 + 1 <= Len(token) /\ SubSeq(token, p2, p2 + 1) \in Phenomena

\* re.match(r'^[-+]?(VC)?(MI|...|FZ)?(DZ|...|DS)+$', token).  No code starts
\* with - or +, VC is no code, and no descriptor is a phenomenon, so each
\* optional part is taken exactly when it is there.
IsWeatherToken(token) ==
    LET p1 == IF Ch(token, 1) \in {"-", "+"} THEN 2 ELSE 1
        p2 == IF StartsWithAt(token, p1, "VC") THEN p1 + 2 ELSE p1
        p3 == IF p2 + 1 <= Len(token) /\ SubSeq(token, p2, p2 + 1) \in Descriptors
              THEN p2 + 2 ELSE p2
    IN  p3 + 1 <= Len(token) /\ PhenomenaToEnd(token, p3)

\* the while loop: remaining[:2] looked up in WEATHER_CODES, two by two
RECURSIVE WeatherCodeParts(_)
WeatherCodeParts(remaining) ==
    IF remaining = "" THEN <<>>
    ELSE LET code == SubSeq(remaining, 1, IF Len(remaining) >= 2 THEN 2 ELSE 1)
         IN  (IF HasKey(WEATHER_CODES, code) THEN <<Lookup(WEATHER_CODES, code)>> ELSE <<>>)
                \o WeatherCodeParts(SubSeq(remaining, 3, Len(remaining)))

\* the parts of one weather token
WeatherParts(token) ==
    LET sign == IF StartsWithAt(token, 1, "-") THEN <<"light">>
                ELSE IF StartsWithAt(token, 1, "+") THEN <<"heavy">>
                ELSE <<>>
        r1 == IF Len(sign) > 0 THEN SubSeq(token, 2, Len(token)) ELSE token
        vc == IF StartsWithAt(r1, 1, "VC") THEN <<"in the vicinity">> ELSE <<>>
        r2 == IF Len(vc) > 0 THEN SubSeq(r1, 3, Len(r1)) ELSE r1
    IN  sign \o vc \o WeatherCodeParts(r2)

RECURSIVE WeatherDescriptions(_)
WeatherDescriptions(list) ==
    IF Len(list) = 0 THEN <<>>
    ELSE (IF Len(WeatherParts(list[1])) > 0
          THEN <<Join(" ", WeatherParts(list[1]))>> ELSE <<>>)
            \o WeatherDescriptions(Tail(list))

parse_weather(list) ==
    IF Len(list) = 0 THEN ""
    ELSE IF Len(WeatherDescriptions(list)) > 0
         THEN "Weather: " \o Join(", ", WeatherDescriptions(list))
         ELSE ""

-----------------------------------------------------------------------------
(* Clouds                                                                  *)

CoverCodes == <<"SKC", "CLR", "FEW", "SCT", "BKN", "OVC", "VV">>

\* the cover code among `codes` that s starts with ("" for none); no code of
\* the list is a prefix of another
CoverOf(s, codes) ==
    IF \E i \in 1..Len(codes) : StartsWithAt(s, 1, codes[i])
    THEN codes[CHOOSE i \in 1..Len(codes) : StartsWithAt(s, 1, codes[i])]
    ELSE ""

\* re.match(r'^(SKC|CLR|FEW|SCT|BKN|OVC|VV)\d{0,3}(CB|TCU)?$', token)
IsCloudToken(token) ==
    LET cover == CoverOf(token, CoverCodes)
        p == Len(cover) + 1
        rest == SubSeq(token, p + DigitRun(token, p), Len(token))
    IN  /\ cover # ""
        /\ DigitRun(token, p) <= 3
        /\ rest \in {"", "CB", "TCU"}

\* re.match(r'(FEW|SCT|BKN|OVC|VV)(\d{3})(CB|TCU)?', token)
IsLayer(token) ==
    LET cover == CoverOf(token, SubSeq(CoverCodes, 3, 7))
    IN  cover # "" /\ AllDigits(token, Len(cover) + 1, 3)

LayerDescription(token) ==
    LET cover == CoverOf(token, SubSeq(CoverCodes, 3, 7))
        p == Len(cover) + 1
        altitude == ParseInt(SubSeq(token, p, p + 2)) * 100
        cover_text == IF HasKey(CLOUD_CODES, cover) THEN Lookup(CLOUD_CODES, cover) ELSE cover
        desc == cover_text \o " at " \o ThousandsSep(altitude) \o " feet"
    IN  IF StartsWithAt(token, p + 3, "CB")
        THEN desc \o " (cumulonimbus - thunderstorm clouds)"
        ELSE IF StartsWithAt(token, p + 3, "TCU")
        THEN desc \o " (towering cumulus)"
        ELSE desc

\* the for loop of parse_clouds from token i on, with the layers found so far
RECURSIVE parse_clouds_loop(_, _, _)
parse_clouds_loop(list, i, descriptions) ==
    IF i > Len(list) THEN
        IF Len(descriptions) > 0 THEN Capitalize(Join(", ", descriptions)) ELSE ""
    ELSE IF list[i] \in {"SKC", "CLR"} THEN "Clear skies"
    ELSE IF IsLayer(list[i])
         THEN parse_clouds_loop(list, i + 1, Append(descriptions, LayerDescription(list[i])))
         ELSE parse_clouds_loop(list, i + 1, descriptions)

\* an empty list gives "" like any other list without layers
parse_clouds_empty_default(list) ==
    IF Len(list) = 0 THEN "" ELSE parse_clouds_loop(list, 1, <<>>)

\* SKC or CLR counts only as the first token of the list
parse_clouds_clear_first_only(list) ==
    IF Len(list) = 0 THEN "Sky conditions not reported"
    ELSE IF list[1] \in {"SKC", "CLR"} THEN "Clear skies"
    ELSE parse_clouds_loop(SelectSeq(list, LAMBDA t : t \notin {"SKC", "CLR"}), 1, <<>>)

parse_clouds(list) ==
    IF Len(list) = 0 THEN "Sky conditions not reported"
    ELSE parse_clouds_loop(list, 1, <<>>)

-----------------------------------------------------------------------------
(* Temperature and dewpoint, altimeter                                     *)

\* Strings are kept to ASCII: a character outside it is written as its code
\* point between angle brackets, which no input contains.

\* the character the f-string of parse_temp_dewpoint writes between the
\* number and the scale letter: U+C9F8, a Hangul syllable
DEGREE_GLYPH == "<U+C9F8>"

\* the degree sign, U+00B0, which the test suite looks for
DEGREE_SIGN == "<U+00B0>"

\* (M)?(\d{2}) at position p: the number of characters matched, 0 for none
SignedTwoDigits(s, p) ==
    IF Ch(s, p) = "M" /\ AllDigits(s, p + 1, 2) THEN 3
    ELSE IF AllDigits(s, p, 2) THEN 2
    ELSE 0

\* re.match(r'(M)?(\d{2})/(M)?(\d{2})', temp_str)
TempMatch(temp_str) ==
    LET a == SignedTwoDigits(temp_str, 1)
    IN  a > 0 /\ Ch(temp_str, a + 1) = "/" /\ SignedTwoDigits(temp_str, a + 2) > 0

\* re.match(r'^M?\d{2}/M?\d{2}$', token)
IsTempToken(token) ==
    /\ TempMatch(token)
    /\ Len(token) = SignedTwoDigits(token, 1) + 1
                        + SignedTwoDigits(token, SignedTwoDigits(token, 1) + 2)

\* the value of (M)?(\d{2}) at p, both signs read off the first token's prefix
SignedValue_shared_sign(s, p) ==
    LET v == ParseInt(SubSeq(s, p + SignedTwoDigits(s, p) - 2, p + SignedTwoDigits(s, p) - 1))
    IN  IF Ch(s, 1) = "M" THEN -v ELSE v

\* the value of (M)?(\d{2}) at p: negated exactly when the M is there
SignedValue(s, p) ==
    LET v == ParseInt(SubSeq(s, p + SignedTwoDigits(s, p) - 2, p + SignedTwoDigits(s, p) - 1))
    IN  IF Ch(s, p) = "M" THEN -v ELSE v

FormatTemp(f, c) ==
    IntToStr(f) \o DEGREE_GLYPH \o "F (" \o IntToStr(c) \o DEGREE_GLYPH \o "C)"

\* returns the pair (temperature, dewpoint)
parse_temp_dewpoint(temp_str) ==
    IF temp_str = "" THEN <<"", "">>
    ELSE IF TempMatch(temp_str) THEN
        LET temp_c == SignedValue(temp_str, 1)
            dew_c == SignedValue(temp_str, SignedTwoDigits(temp_str, 1) + 2)
            temp_f == celsius_to_fahrenheit(temp_c)
            dew_f == celsius_to_fahrenheit(dew_c)
        IN  <<FormatTemp(temp_f, temp_c), FormatTemp(dew_f, dew_c)>>
    ELSE <<"", "">>

\* re.match(r'^A\d{4}$', token) or re.match(r'^Q\d{4}$', token)
IsAltimeterToken(token) ==
    Ch(token, 1) \in {"A", "Q"} /\ AllDigits(token, 2, 4) /\ Len(token) = 5

parse_altimeter(alt_str) ==
    IF alt_str = "" THEN ""
    ELSE IF Ch(alt_str, 1) = "A" /\ AllDigits(alt_str, 2, 4) THEN
        \* value / 100 with two decimals
        LET value == ParseInt(SubSeq(alt_str, 2, 5))
        IN  NatToStr(value \div 100) \o "." \o Padded(value % 100, 2) \o " inches of mercury"
    ELSE IF Ch(alt_str, 1) = "Q" /\ AllDigits(alt_str, 2, 4) THEN
        NatToStr(ParseInt(SubSeq(alt_str, 2, 5))) \o " hectopascals"
    ELSE alt_str

-----------------------------------------------------------------------------
(* Flight category                                                         *)

determine_flight_category(visibility_sm, ceiling_ft) ==
    IF ceiling_ft < 500 \/ visibility_sm < 1
    THEN "LIFR (Low Instrument Flight Rules) - Very poor conditions"
    ELSE IF ceiling_ft < 1000 \/ visibility_sm < 3
    THEN "IFR (Instrument Flight Rules) - Poor conditions"
    ELSE IF ceiling_ft <= 3000 \/ visibility_sm <= 5
    THEN "MVFR (Marginal Visual Flight Rules) - Moderate conditions"
    ELSE "VFR (Visual Flight Rules) - Good conditions"

-----------------------------------------------------------------------------
(* Summary                                                                 *)

\* the visibility clause added whenever there is a visibility, and in front
\* of the weather clause
generate_summary_visibility_always(d) ==
    LET clouds == Lower(d.clouds)
        opening ==
            IF Contains(clouds, "clear") THEN "It's a clear day"
            ELSE IF Contains(clouds, "overcast") THEN "The sky is overcast"
            ELSE IF Contains(clouds, "broken") THEN "The sky is mostly cloudy"
            ELSE IF Contains(clouds, "scattered") THEN "There are some clouds in the sky"
            ELSE IF Contains(clouds, "few") THEN "There are a few clouds"
            ELSE "Current conditions"
        temperature ==
            IF d.temperature # "" THEN <<"with a temperature of " \o d.temperature>>
            ELSE <<>>
        wind ==
            IF Contains(Lower(d.wind), "calm") THEN <<"and calm winds">>
            ELSE IF d.wind # "" THEN <<"and " \o Lower(d.wind)>>
            ELSE <<>>
        weather == IF d.weather # "" THEN <<". " \o d.weather>> ELSE <<>>
        visibility == IF d.visibility # "" THEN <<". " \o d.visibility>> ELSE <<>>
    IN  Join(" ", <<opening>> \o temperature \o wind \o visibility \o weather) \o "."

generate_summary(d) ==
    LET clouds == Lower(d.clouds)
        opening ==
            IF Contains(clouds, "clear") THEN "It's a clear day"
            ELSE IF Contains(clouds, "overcast") THEN "The sky is overcast"
            ELSE IF Contains(clouds, "broken") THEN "The sky is mostly cloudy"
            ELSE IF Contains(clouds, "scattered") THEN "There are some clouds in the sky"
            ELSE IF Contains(clouds, "few") THEN "There are a few clouds"
            ELSE "Current conditions"
        temperature ==
            IF d.temperature # "" THEN <<"with a temperature of " \o d.temperature>>
            ELSE <<>>
        wind ==
            IF Contains(Lower(d.wind), "calm") THEN <<"and calm winds">>
            ELSE IF d.wind # "" THEN <<"and " \o Lower(d.wind)>>
            ELSE <<>>
        weather == IF d.weather # "" THEN <<". " \o d.weather>> ELSE <<>>
        visibility ==
            IF /\ d.visibility # ""
               /\ \/ Contains(Lower(d.visibility), "poor")
                  \/ Contains(Lower(d.visibility), "reduced")
                  \/ Contains(Lower(d.visibility), "moderate")
            THEN <<". " \o d.visibility>>
            ELSE <<>>
    IN  Join(" ", <<opening>> \o temperature \o wind \o weather \o visibility) \o "."

-----------------------------------------------------------------------------
(* decode_metar, one action per statement block                            *)

Fields ==
    {"airport", "observation_time", "wind", "visibility", "weather", "clouds",
     "temperature", "dewpoint", "altimeter"}

\* DecodedMetar(raw_metar=...): every other field keeps its default ""
DecodedMetar(raw_metar) ==
    [airport |-> "", observation_time |-> "", wind |-> "", visibility |-> "",
     weather |-> "", clouds |-> "", temperature |-> "", dewpoint |-> "",
     altimeter |-> "", flight_category |-> "", raw_metar |-> raw_metar,
     summary |-> ""]

NoneUsed == [f \in Fields |-> {}]

\* tokens[idx]; the model's sequences start at 1
Cur == tokens[idx + 1]

InRange == idx < Len(tokens)

\* `if not tokens` skipped: the function goes on with an empty list
NoTokens_never(list) == FALSE

\* `if not tokens`
NoTokens(list) == Len(list) = 0

\* re.match(r'\d{6}Z', token)
IsObsTimeToken(token) == AllDigits(token, 1, 6) /\ Ch(token, 7) = "Z"

\* lines 370-377
Tokenize ==
    /\ pc = "call"
    /\ decoded' = DecodedMetar(Strip(raw))
    /\ tokens' = Split(Strip(raw))
    /\ idx' = 0
    /\ pc' = IF NoTokens(tokens') THEN "done" ELSE "prefix"
    /\ UNCHANGED <<raw, visibility_tokens, weather_tokens, cloud_tokens, exc, used,
                   call, ret, app>>

\* lines 379-381; tokens[idx] of an empty list is an IndexError
Prefix ==
    /\ pc = "prefix"
    /\ IF ~InRange
       THEN pc' = "raised" /\ exc' = "IndexError" /\ idx' = idx
       ELSE /\ pc' = "airport"
            /\ exc' = exc
            /\ idx' = IF Cur \in {"METAR", "SPECI"} THEN idx + 1 ELSE idx
    /\ UNCHANGED <<raw, tokens, decoded, visibility_tokens, weather_tokens,
                   cloud_tokens, used, call, ret, app>>

\* lines 383-386
Airport ==
    /\ pc = "airport"
    /\ IF InRange
       THEN /\ decoded' = [decoded EXCEPT !.airport = Cur]
            /\ used' = [used EXCEPT !.airport = {idx}]
            /\ idx' = idx + 1
       ELSE UNCHANGED <<decoded, used, idx>>
    /\ pc' = "time"
    /\ UNCHANGED <<raw, tokens, visibility_tokens, weather_tokens, cloud_tokens, exc,
                   call, ret, app>>

\* lines 388-396
ObsTime ==
    /\ pc = "time"
    /\ IF InRange /\ IsObsTimeToken(Cur)
       THEN /\ decoded' = [decoded EXCEPT !.observation_time =
                    "Day " \o SubSeq(Cur, 1, 2) \o " at " \o SubSeq(Cur, 3, 4)
                        \o ":" \o SubSeq(Cur, 5, 6) \o " UTC"]
            /\ used' = [used EXCEPT !.observation_time = {idx}]
            /\ idx' = idx + 1
       ELSE UNCHANGED <<decoded, used, idx>>
    /\ pc' = "auto"
    /\ UNCHANGED <<raw, tokens, visibility_tokens, weather_tokens, cloud_tokens, exc,
                   call, ret, app>>

\* lines 398-400
Auto ==
    /\ pc = "auto"
    /\ idx' = IF InRange /\ Cur = "AUTO" THEN idx + 1 ELSE idx
    /\ pc' = "wind"
    /\ UNCHANGED <<raw, tokens, decoded, visibility_tokens, weather_tokens,
                   cloud_tokens, exc, used, call, ret, app>>

\* lines 402-409: the wind token, and a variability range right after it
Wind ==
    /\ pc = "wind"
    /\ IF InRange /\ IsWindToken(Cur)
       THEN /\ decoded' = [decoded EXCEPT !.wind = parse_wind(Cur)]
            /\ used' = [used EXCEPT !.wind = {idx}]
            /\ idx' = IF idx + 1 < Len(tokens) /\ IsWindVariability(tokens[idx + 2])
                      THEN idx + 2 ELSE idx + 1
       ELSE UNCHANGED <<decoded, used, idx>>
    /\ pc' = "visibility"
    /\ UNCHANGED <<raw, tokens, visibility_tokens, weather_tokens, cloud_tokens, exc,
                   call, ret, app>>

\* lines 413-417: one turn of the visibility loop
VisibilityStep ==
    /\ pc = "visibility"
    /\ InRange /\ IsVisibilityToken(Cur)
    /\ visibility_tokens' = Append(visibility_tokens, Cur)
    /\ used' = [used EXCEPT !.visibility = @ \cup {idx}]
    /\ idx' = idx + 1
    /\ UNCHANGED <<raw, pc, tokens, decoded, weather_tokens, cloud_tokens, exc,
                   call, ret, app>>

\* lines 418-419: the loop is over; parse_visibility may raise
VisibilityEnd ==
    /\ pc = "visibility"
    /\ ~(InRange /\ IsVisibilityToken(Cur))
    /\ IF Len(visibility_tokens) = 0
       THEN pc' = "classify" /\ UNCHANGED <<decoded, exc>>
       ELSE IF parse_visibility_raises(Join(" ", visibility_tokens))
       THEN pc' = "raised" /\ exc' = "ZeroDivisionError" /\ UNCHANGED decoded
       ELSE /\ pc' = "classify"
            /\ decoded' = [decoded EXCEPT !.visibility =
                                parse_visibility(Join(" ", visibility_tokens))]
            /\ exc' = exc
    /\ UNCHANGED <<raw, tokens, idx, visibility_tokens, weather_tokens, cloud_tokens,
                   used, call, ret, app>>

\* the RMK branch never taken
IsBreak_never(token) == FALSE

\* the elif chain reaches `elif token == 'RMK'` and takes it
IsBreak(token) ==
    /\ ~IsWeatherToken(token)
    /\ ~IsCloudToken(token)
    /\ ~IsTempToken(token)
    /\ ~IsAltimeterToken(token)
    /\ token = "RMK"

\* the classification loop trying the wind grammar too, on every token
ClassifyStep_wind_anywhere ==
    /\ pc = "classify"
    /\ InRange /\ ~IsBreak(Cur)
    /\ IF IsWindToken(Cur)
       THEN /\ decoded' = [decoded EXCEPT !.wind = parse_wind(Cur)]
            /\ used' = [used EXCEPT !.wind = @ \cup {idx}]
            /\ UNCHANGED <<weather_tokens, cloud_tokens>>
       ELSE IF IsWeatherToken(Cur)
       THEN /\ weather_tokens' = Append(weather_tokens, Cur)
            /\ used' = [used EXCEPT !.weather = @ \cup {idx}]
            /\ UNCHANGED <<cloud_tokens, decoded>>
       ELSE IF IsCloudToken(Cur)
       THEN /\ cloud_tokens' = Append(cloud_tokens, Cur)
            /\ used' = [used EXCEPT !.clouds = @ \cup {idx}]
            /\ UNCHANGED <<weather_tokens, decoded>>
       ELSE IF IsTempToken(Cur)
       THEN /\ decoded' = [decoded EXCEPT !.temperature = parse_temp_dewpoint(Cur)[1],
                                          !.dewpoint = parse_temp_dewpoint(Cur)[2]]
            /\ used' = [used EXCEPT !.temperature = {idx}, !.dewpoint = {idx}]
            /\ UNCHANGED <<weather_tokens, cloud_tokens>>
       ELSE IF IsAltimeterToken(Cur)
       THEN /\ decoded' = [decoded EXCEPT !.altimeter = parse_altimeter(Cur)]
            /\ used' = [used EXCEPT !.altimeter = {idx}]
            /\ UNCHANGED <<weather_tokens, cloud_tokens>>
       ELSE UNCHANGED <<weather_tokens, cloud_tokens, decoded, used>>
    /\ idx' = idx + 1
    /\ UNCHANGED <<raw, pc, tokens, visibility_tokens, exc, call, ret, app>>

\* lines 425-444: one turn of the classification loop that does not break
ClassifyStep ==
    /\ pc = "classify"
    /\ InRange /\ ~IsBreak(Cur)
    /\ IF IsWeatherToken(Cur)
       THEN /\ weather_tokens' = Append(weather_tokens, Cur)
            /\ used' = [used EXCEPT !.weather = @ \cup {idx}]
            /\ UNCHANGED <<cloud_tokens, decoded>>
       ELSE IF IsCloudToken(Cur)
       THEN /\ cloud_tokens' = Append(cloud_tokens, Cur)
            /\ used' = [used EXCEPT !.clouds = @ \cup {idx}]
            /\ UNCHANGED <<weather_tokens, decoded>>
       ELSE IF IsTempToken(Cur)
       THEN /\ decoded' = [decoded EXCEPT !.temperature = parse_temp_dewpoint(Cur)[1],
                                          !.dewpoint = parse_temp_dewpoint(Cur)[2]]
            /\ used' = [used EXCEPT !.temperature = {idx}, !.dewpoint = {idx}]
            /\ UNCHANGED <<weather_tokens, cloud_tokens>>
       ELSE IF IsAltimeterToken(Cur)
       THEN /\ decoded' = [decoded EXCEPT !.altimeter = parse_altimeter(Cur)]
            /\ used' = [used EXCEPT !.altimeter = {idx}]
            /\ UNCHANGED <<weather_tokens, cloud_tokens>>
       ELSE UNCHANGED <<weather_tokens, cloud_tokens, decoded, used>>
    /\ idx' = idx + 1
    /\ UNCHANGED <<raw, pc, tokens, visibility_tokens, exc, call, ret, app>>

\* lines 441-442: RMK breaks out of the loop, the cursor stays on it
Break ==
    /\ pc = "classify"
    /\ InRange /\ IsBreak(Cur)
    /\ pc' = "finish"
    /\ UNCHANGED <<raw, tokens, idx, decoded, visibility_tokens, weather_tokens,
                   cloud_tokens, exc, used, call, ret, app>>

\* line 425: the loop condition fails at the end of the tokens
ClassifyEnd ==
    /\ pc = "classify"
    /\ ~InRange
    /\ pc' = "finish"
    /\ UNCHANGED <<raw, tokens, idx, decoded, visibility_tokens, weather_tokens,
                   cloud_tokens, exc, used, call, ret, app>>

\* the end of decode_metar with the flight category filled in
Finish_with_category ==
    /\ pc = "finish"
    /\ LET d == [decoded EXCEPT !.weather = parse_weather(weather_tokens),
                                !.clouds = parse_clouds(cloud_tokens),
                                !.flight_category =
                                    determine_flight_category(10, 5000)]
       IN  decoded' = [d EXCEPT !.summary = generate_summary(d)]
    /\ pc' = "done"
    /\ UNCHANGED <<raw, tokens, idx, visibility_tokens, weather_tokens, cloud_tokens,
                   exc, used, call, ret, app>>

\* lines 446-452
Finish ==
    /\ pc = "finish"
    /\ LET d == [decoded EXCEPT !.weather = parse_weather(weather_tokens),
                                !.clouds = parse_clouds(cloud_tokens)]
       IN  decoded' = [d EXCEPT !.summary = generate_summary(d)]
    /\ pc' = "done"
    /\ UNCHANGED <<raw, tokens, idx, visibility_tokens, weather_tokens, cloud_tokens,
                   exc, used, call, ret, app>>

decode_metar ==
    \/ Tokenize \/ Prefix \/ Airport \/ ObsTime \/ Auto \/ Wind
    \/ VisibilityStep \/ VisibilityEnd \/ ClassifyStep \/ Break \/ ClassifyEnd
    \/ Finish

-----------------------------------------------------------------------------
(* The reports decode_metar is called with                                 *)

\* the longest report built from a word list, in tokens
MaxTokens == 3

SeqsUpTo(words, n) == UNION { [1..k -> words] : k \in 0..n }

Reports(words) == { Join(" ", ts) : ts \in SeqsUpTo(words, MaxTokens) }

\* the header grammars, the remarks marker and one body token
HeaderWords ==
    {"METAR", "KJFK", "251200Z", "AUTO", "18010KT", "180V240", "10SM", "RMK", "FEW030"}

\* the visibility encodings, around a wind and a weather token
VisibilityWords ==
    {"KJFK", "VRB05G15KT", "6SM", "1/2SM", "1/0SM", "9999", "1", "-RA"}

\* the grammars of the classification loop
BodyWords ==
    {"KJFK", "RMK", "+SN", "RAXX", "CLR", "OVC01", "BKN030CB", "M05/M08", "Q1015"}

\* weather tokens, and tokens with a weather code in them that the pattern
\* rejects
WeatherWords ==
    {"KJFK", "TSRA", "+VCTSRA", "VCSH", "BR", "RAX", "XXRA", "RA1", "TS", "-"}

\* MOCK_METARS of the test suite
MOCK_METARS ==
    { "METAR KJFK 251200Z 00000KT 10SM CLR 20/10 A3000",
      "METAR KLAX 251300Z 27015G25KT 10SM FEW040 25/12 A2990",
      "METAR KORD 251400Z VRB05KT 10SM SCT050 18/08 A2985",
      "METAR KSFO 251500Z 18010KT 3SM RA BKN020 OVC040 15/13 A2975",
      "METAR KDEN 251600Z 36020G30KT 1/2SM +SN OVC005 M05/M08 A2950",
      "METAR KBOS 251700Z 00000KT 1/4SM FG VV002 08/08 A3010",
      "METAR KDFW 251800Z 24025G40KT 2SM TSRA BKN030CB OVC050 28/22 A2960",
      "METAR KATL 251900Z 15008KT 10SM FEW030 SCT080 BKN150 OVC250 22/15 A2995",
      "METAR KORD 252000Z 04012KT 5SM -FZRA OVC010 M02/M04 A2940",
      "METAR KLGA 252100Z 20005KT 6SM BR HZ FEW100 19/17 A3005",
      "METAR KSEA 252200Z 33008KT 4SM -DZ OVC015 12/11 A3020",
      "METAR EGLL 252300Z 27012KT 9999 SCT040 15/08 Q1015" }

Blanks == {"", " ", "\n ", " \t"}

\* reports with whitespace before, after and between the tokens
SpacedReports ==
    { lead \o body \o trail :
        lead \in Blanks, trail \in Blanks,
        body \in {"", "KJFK", "METAR KJFK  10SM", "SPECI KJFK\tRMK FEW030"} }

Inputs ==
    Reports(HeaderWords) \cup Reports(VisibilityWords) \cup Reports(BodyWords)
        \cup Reports(WeatherWords)
        \cup MOCK_METARS \cup SpacedReports

NoCall == [fn |-> "none", arg |-> <<>>]

NoRequest == [pc |-> "none"]

Init ==
    /\ raw \in Inputs
    /\ pc = "call"
    /\ tokens = <<>>
    /\ idx = 0
    /\ decoded = DecodedMetar("")
    /\ visibility_tokens = <<>>
    /\ weather_tokens = <<>>
    /\ cloud_tokens = <<>>
    /\ exc = ""
    /\ used = NoneUsed
    /\ call = NoCall
    /\ ret = <<>>
    /\ app = NoRequest

Next == decode_metar

Spec == Init /\ [][Next]_vars

-----------------------------------------------------------------------------
(* Direct calls of the helpers, as the unit tests make them                *)

\* the largest value of a \d{2,3} speed or gust field
SpeedFieldMax == 999

\* the largest value of a \d{2} temperature field
TempFieldMax == 99

\* the upper end of the compass table
MaxDegrees == 360

TempSamples == {0, 2, 5, 8, 10, 20, 40, TempFieldMax}

TempToken(tneg, t, dneg, d) ==
    (IF tneg THEN "M" ELSE "") \o Padded(t, 2) \o "/"
        \o (IF dneg THEN "M" ELSE "") \o Padded(d, 2)

WindToken(dir, speed, gust) == Padded(dir, 3) \o speed \o gust \o "KT"

\* nSM
WholeMilesToken(n) == NatToStr(n) \o "SM"

\* [w ]n/dSM; whole is "" or the whole miles and the blank after them
FractionToken(whole, num, denom) ==
    whole \o NatToStr(num) \o "/" \o NatToStr(denom) \o "SM"

WholeMilesSamples == (0..12) \cup {15, 100}

FractionWholes == {"", "1 ", "2 ", "10 "}

FractionNums == {0, 1, 3, 7, 25}

\* 0, and denominators whose quotients have a decimal expansion that ends
FractionDenoms == {0, 1, 2, 4, 16}

MetersSamples == {"0000", "0800", "4800", "9999"}

\* the longest list parse_clouds is called with
MaxCloudTokens == 3

\* clear-sky codes, layers, and tokens of the cloud grammar that are neither
CloudWords == {"SKC", "CLR", "FEW030", "BKN030CB", "OVC01", "FEW", "CLR030"}

CloudCalls ==
    { [fn |-> "parse_clouds", arg |-> <<list>>] :
          list \in SeqsUpTo(CloudWords, MaxCloudTokens) }

VisibilityCalls ==
    { [fn |-> "parse_visibility", arg |-> <<WholeMilesToken(n)>>] :
          n \in WholeMilesSamples }
    \cup { [fn |-> "parse_visibility", arg |-> <<FractionToken(w, n, d)>>] :
              w \in FractionWholes, n \in FractionNums, d \in FractionDenoms }
    \cup { [fn |-> "parse_visibility", arg |-> <<m>>] : m \in MetersSamples }

UnitCalls ==
    { [fn |-> "knots_to_mph", arg |-> <<k>>] : k \in 0..SpeedFieldMax }
    \cup { [fn |-> "celsius_to_fahrenheit", arg |-> <<c>>] :
              c \in (-TempFieldMax)..(TempFieldMax + 1) }
    \cup { [fn |-> "degrees_to_direction", arg |-> <<d>>] : d \in 0..MaxDegrees }
    \cup { [fn |-> "parse_wind", arg |-> <<WindToken(d, sp, g)>>] :
              d \in 0..MaxDegrees, sp \in {"00", "05", "30", "100"},
              g \in {"", "G25", "G00"} }
    \cup { [fn |-> "parse_temp_dewpoint", arg |-> <<TempToken(tn, t, dn, d)>>] :
              tn \in BOOLEAN, t \in TempSamples, dn \in BOOLEAN, d \in TempSamples }
    \cup VisibilityCalls
    \cup CloudCalls

InitUnit ==
    /\ raw = ""
    /\ pc = "idle"
    /\ tokens = <<>>
    /\ idx = 0
    /\ decoded = DecodedMetar("")
    /\ visibility_tokens = <<>>
    /\ weather_tokens = <<>>
    /\ cloud_tokens = <<>>
    /\ exc = ""
    /\ used = NoneUsed
    /\ call \in UnitCalls
    /\ ret = <<>>
    /\ app = NoRequest

Returns(fn, value) ==
    /\ call.fn = fn
    /\ ret = <<>>
    /\ ret' = <<value>>
    /\ UNCHANGED <<raw, pc, tokens, idx, decoded, visibility_tokens, weather_tokens,
                   cloud_tokens, exc, used, call, app>>

CallKnotsToMph == Returns("knots_to_mph", knots_to_mph(call.arg[1]))

CallCelsiusToFahrenheit ==
    Returns("celsius_to_fahrenheit", celsius_to_fahrenheit(call.arg[1]))

CallDegreesToDirection ==
    Returns("degrees_to_direction", degrees_to_direction(call.arg[1]))

CallParseWind == Returns("parse_wind", parse_wind(call.arg[1]))

CallParseTempDewpoint ==
    Returns("parse_temp_dewpoint", parse_temp_dewpoint(call.arg[1]))

\* the call returns, or ends with the exception of the division
CallParseVisibility ==
    /\ call.fn = "parse_visibility"
    /\ ret = <<>> /\ exc = ""
    /\ IF parse_visibility_raises(call.arg[1])
       THEN exc' = "ZeroDivisionError" /\ ret' = ret
       ELSE exc' = exc /\ ret' = <<parse_visibility(call.arg[1])>>
    /\ UNCHANGED <<raw, pc, tokens, idx, decoded, visibility_tokens, weather_tokens,
                   cloud_tokens, used, call, app>>

CallParseClouds == Returns("parse_clouds", parse_clouds(call.arg[1]))

NextUnit ==
    \/ CallKnotsToMph
    \/ CallCelsiusToFahrenheit
    \/ CallDegreesToDirection
    \/ CallParseWind
    \/ CallParseTempDewpoint
    \/ CallParseVisibility
    \/ CallParseClouds

SpecUnit == InitUnit /\ [][NextUnit]_vars

-----------------------------------------------------------------------------
(* app.py: one request to the index route                                  *)

\* request.form: <<>> when the field is missing, else its value
Forms ==
    { <<>>, <<"">>, <<"   ">>, <<"JFK">>, <<"K123">>, <<"KJFKX">>, <<"kjfk">>,
      <<" kjfk ">>, <<"KJFK">>, <<"XXXX">> }

\* what urlopen does when fetch_metar calls it
NetOutcomes ==
    { [kind |-> "data", body |-> b] :
        b \in { "METAR KJFK 251200Z 00000KT 10SM CLR 20/10 A3000\n",
                "KJFK 251500Z AUTO 18010KT 3SM RA BKN020 15/13 A2975 RMK AO2",
                "KDEN 1/0SM OVC005",
                "",
                " \n" } }
    \cup { [kind |-> "http_error", body |-> "404"],
           [kind |-> "url_error", body |-> "timed out"],
           [kind |-> "other_error", body |-> "timed out"] }

InitApp ==
    /\ raw = ""
    /\ pc = "idle"
    /\ tokens = <<>>
    /\ idx = 0
    /\ decoded = DecodedMetar("")
    /\ visibility_tokens = <<>>
    /\ weather_tokens = <<>>
    /\ cloud_tokens = <<>>
    /\ exc = ""
    /\ used = NoneUsed
    /\ call = NoCall
    /\ ret = <<>>
    /\ \E m \in {"GET", "POST"}, f \in Forms, n \in NetOutcomes :
          app = [pc |-> "request", method |-> m, form |-> f, net |-> n,
                 airport_code |-> <<>>, metar |-> <<>>, error |-> <<>>,
                 fetch_calls |-> <<>>]

\* request.form.get('airport_code', '').strip().upper()
SubmittedCode(form) == Upper(Strip(IF form = <<>> THEN "" ELSE form[1]))

\* the code passes with the right length alone
ValidCode_length_only(code) == Len(code) = 4

\* the negation of line 51: len(airport_code) != 4 or not airport_code.isalpha()
ValidCode(code) == Len(code) = 4 /\ IsAlpha(code)

\* lines 41-55: up to the call of fetch_metar, or to the response
Index ==
    /\ app.pc = "request"
    /\ IF app.method # "POST"
       THEN app' = [app EXCEPT !.pc = "responded"]
       ELSE LET code == SubmittedCode(app.form)
            IN  IF code = ""
                THEN app' = [app EXCEPT !.pc = "responded",
                                        !.airport_code = <<code>>,
                                        !.error = <<"Please enter an airport code">>]
                ELSE IF ~ValidCode(code)
                THEN app' = [app EXCEPT !.pc = "responded",
                                        !.airport_code = <<code>>,
                                        !.error = <<"Airport code must be exactly 4 letters (e.g., KJFK)">>]
                ELSE app' = [app EXCEPT !.pc = "fetch",
                                        !.airport_code = <<code>>,
                                        !.fetch_calls = Append(@, code)]
    /\ UNCHANGED <<raw, pc, tokens, idx, decoded, visibility_tokens, weather_tokens,
                   cloud_tokens, exc, used, call, ret>>

\* fetch_metar (lines 24-35) and what index does with an exception of it
\* (lines 57-60); a returned report goes to decode_metar
fetch_metar ==
    /\ app.pc = "fetch"
    /\ LET code == app.airport_code[1]
           data == Strip(app.net.body)
       IN  IF app.net.kind = "data" /\ data # ""
           THEN /\ raw' = data
                /\ pc' = "call"
                /\ app' = [app EXCEPT !.pc = "decode"]
           ELSE /\ UNCHANGED <<raw, pc>>
                /\ app' = [app EXCEPT
                      !.pc = "responded",
                      !.error =
                        IF app.net.kind = "data"
                        THEN <<"No METAR data found for airport code: " \o code>>
                        ELSE IF app.net.kind = "http_error"
                        THEN <<"HTTP error fetching METAR: " \o app.net.body>>
                        ELSE IF app.net.kind = "url_error"
                        THEN <<"Network error fetching METAR: " \o app.net.body>>
                        ELSE <<"An unexpected error occurred: " \o app.net.body>>]
    /\ UNCHANGED <<tokens, idx, decoded, visibility_tokens, weather_tokens,
                   cloud_tokens, exc, used, call, ret>>

\* str(e) of what decode_metar raises
ExceptionText(e) ==
    IF e = "ZeroDivisionError" THEN "division by zero"
    ELSE "list index out of range"

\* lines 56-65: decode_metar returned or raised
IndexDecoded ==
    /\ app.pc = "decode"
    /\ pc \in {"done", "raised"}
    /\ app' = IF pc = "done"
              THEN [app EXCEPT !.pc = "responded", !.metar = <<decoded>>]
              ELSE [app EXCEPT !.pc = "responded",
                               !.error = <<"An unexpected error occurred: "
                                              \o ExceptionText(exc)>>]
    /\ UNCHANGED <<raw, pc, tokens, idx, decoded, visibility_tokens, weather_tokens,
                   cloud_tokens, exc, used, call, ret>>

NextApp == Index \/ fetch_metar \/ decode_metar \/ IndexDecoded

SpecApp == InitApp /\ [][NextApp]_vars

-----------------------------------------------------------------------------
(* Properties                                                              *)

AllBlank(s) == \A i \in 1..Len(s) : IsSpace(Ch(s, i))

TokenPositions == 0..(Len(tokens) - 1)

\* the position of the token taken as station identifier
StationPosition == IF Len(tokens) > 0 /\ tokens[1] \in {"METAR", "SPECI"} THEN 1 ELSE 0

Abs(n) == IF n < 0 THEN -n ELSE n

\* C1: decode_metar never raises, whatever the input string: it always
\* returns a DecodedMetar.  (Specification Spec; refuted by a fraction
\* visibility with denominator 0.)
C1_NeverRaises == pc # "raised"

\* C2 as claimed: wherever an RMK token stands in the input, no token after
\* it is assigned to any decoded field.
C2_RemarksHaltAtAnyPosition ==
    \A j \in TokenPositions :
        tokens[j + 1] = "RMK" =>
            \A f \in Fields : \A i \in used[f] : i <= j

\* C2 as amended: an RMK token that stands after the station identifier halts
\* classification: no token after the first such RMK is assigned to any
\* decoded field.  (An RMK in the station position is the airport and halts
\* nothing.)
C2_RemarksHaltAfterStation ==
    \A j \in TokenPositions :
        (j > StationPosition /\ tokens[j + 1] = "RMK") =>
            \A f \in Fields : \A i \in used[f] : i <= j

\* C2 witness: a finished decode whose input has RMK after the station and a
\* cloud token after the RMK, which left the cloud list empty
C2_Witness ==
    /\ pc = "done"
    /\ \E j \in TokenPositions :
          /\ j > StationPosition
          /\ tokens[j + 1] = "RMK"
          /\ \E k \in TokenPositions : k > j /\ IsCloudToken(tokens[k + 1])
    /\ used.clouds = {}
    /\ decoded.airport = "KJFK"

\* C4 as claimed: in the result, each of wind, visibility, weather, clouds,
\* temperature, dewpoint and altimeter is "" whenever no token of the input
\* matches that field's grammar.
C4_AbsentFieldsEmpty ==
    pc = "done" =>
        LET none(Is(_)) == \A i \in 1..Len(tokens) : ~Is(tokens[i])
        IN  /\ none(IsWindToken) => decoded.wind = ""
            /\ none(IsVisibilityToken) => decoded.visibility = ""
            /\ none(IsWeatherToken) => decoded.weather = ""
            /\ none(IsCloudToken) => decoded.clouds = ""
            /\ none(IsTempToken) => decoded.temperature = "" /\ decoded.dewpoint = ""
            /\ none(IsAltimeterToken) => decoded.altimeter = ""

\* C4 as amended: wind, visibility, weather, temperature, dewpoint and
\* altimeter are "" whenever no token of the input matches the field's
\* grammar; clouds is "" for an input without tokens and the phrase
\* "Sky conditions not reported" for an input with tokens but no cloud token.
C4_AbsentFieldsDefault ==
    pc = "done" =>
        LET none(Is(_)) == \A i \in 1..Len(tokens) : ~Is(tokens[i])
        IN  /\ none(IsWindToken) => decoded.wind = ""
            /\ none(IsVisibilityToken) => decoded.visibility = ""
            /\ none(IsWeatherToken) => decoded.weather = ""
            /\ none(IsCloudToken) =>
                  decoded.clouds = IF Len(tokens) = 0 THEN ""
                                   ELSE "Sky conditions not reported"
            /\ none(IsTempToken) => decoded.temperature = "" /\ decoded.dewpoint = ""
            /\ none(IsAltimeterToken) => decoded.altimeter = ""

\* C4 witness: a finished decode of a station and a wind token only
C4_Witness ==
    /\ pc = "done"
    /\ tokens = <<"KJFK", "18010KT">>
    /\ decoded.wind # ""
    /\ decoded.visibility = "" /\ decoded.weather = "" /\ decoded.altimeter = ""
    /\ decoded.clouds = "Sky conditions not reported"

\* C5: the result's raw_metar is the input with its leading and trailing
\* whitespace removed and nothing else changed: the input is whitespace,
\* raw_metar, whitespace, and raw_metar neither starts nor ends with
\* whitespace; so a METAR/SPECI marker and the tokens after RMK stay in it.
C5_RawMetarTrimmed ==
    pc = "done" =>
        LET r == decoded.raw_metar
        IN  /\ \E lead \in 0..Len(raw) :
                  /\ lead + Len(r) <= Len(raw)
                  /\ SubSeq(raw, lead + 1, lead + Len(r)) = r
                  /\ \A i \in 1..lead : IsSpace(Ch(raw, i))
                  /\ \A i \in (lead + Len(r) + 1)..Len(raw) : IsSpace(Ch(raw, i))
            /\ r # "" => ~IsSpace(Ch(r, 1)) /\ ~IsSpace(Ch(r, Len(r)))

\* C5 witness: an input with whitespace on both sides, a SPECI marker and a
\* cloud token after RMK, which are in raw_metar and not in the cloud field
C5_Witness ==
    /\ pc = "done"
    /\ raw = "\n SPECI KJFK\tRMK FEW030 \t"
    /\ decoded.raw_metar = "SPECI KJFK\tRMK FEW030"
    /\ ~Contains(Lower(decoded.clouds), "few")

\* C6: for the empty string and every whitespace-only string decode_metar
\* returns, without raising, straight after tokenizing, a record whose
\* twelve fields are all "".
C6_BlankInputAllEmpty ==
    AllBlank(raw) =>
        /\ pc \in {"call", "done"}
        /\ pc = "done" =>
              \A f \in DOMAIN decoded : decoded[f] = ""

\* C6 witness: the finished decode of a whitespace-only, non-empty input
C6_Witness ==
    /\ pc = "done"
    /\ raw = "\n  \t"
    /\ decoded.summary = "" /\ decoded.clouds = "" /\ decoded.raw_metar = ""

\* C7: decoding "METAR KJFK 251200Z 00000KT 10SM CLR 20/10 A3000" gives
\* station KJFK, a wind naming calm, a visibility naming excellent, clouds
\* "clear skies", a temperature containing 68 and 20 each followed by the
\* degree sign and the scale letter ("68<U+00B0>F", "20<U+00B0>C"), and an altimeter
\* containing "30.00" (texts compared as the test suite does, in lower case).
C7_ClearCalmDay ==
    (pc = "done" /\ raw = "METAR KJFK 251200Z 00000KT 10SM CLR 20/10 A3000") =>
        /\ decoded.airport = "KJFK"
        /\ Contains(Lower(decoded.wind), "calm")
        /\ Contains(Lower(decoded.visibility), "excellent")
        /\ Lower(decoded.clouds) = "clear skies"
        /\ Contains(decoded.temperature, "68" \o DEGREE_SIGN \o "F")
        /\ Contains(decoded.temperature, "20" \o DEGREE_SIGN \o "C")
        /\ Contains(decoded.altimeter, "30.00")


CompassPoints ==
    <<"north", "northeast", "east", "southeast", "south", "southwest", "west",
      "northwest">>

\* the compass point whose 45-degree sector, centred on it and half-open
\* (22.5 belongs to northeast), holds the direction; 360 is north again
CompassPoint(degrees) == CompassPoints[(((2 * degrees + 45) \div 90) % 8) + 1]

\* C3: for a fixed-direction wind token dddss[Ggg]KT with non-zero speed,
\* parse_wind names the compass point of the direction's 22.5-degree-bounded
\* sector; 000 and 359 give north, and so does 360 (36030KT), as the test
\* asserts.  (Specification SpecUnit; refuted at direction 360.)
C3_WindNamesCompassPoint ==
    (call.fn = "parse_wind" /\ ret # <<>> /\ SubSeq(call.arg[1], 4, 5) # "00") =>
        StartsWithAt(ret[1], 1,
            "Wind from the " \o CompassPoint(ParseInt(SubSeq(call.arg[1], 1, 3)))
                \o " at ")

\* C8: on a POST to the index route fetch_metar is called exactly once, with
\* the stripped upper-cased code, when that code is 4 letters, and never
\* otherwise (nor on a GET); a response carries at most one of decoded
\* report and error message; an error raised by fetch_metar becomes the
\* error message, with no decoded report.  (Specification SpecApp.)
C8_FetchGatedByValidation ==
    app.pc # "none" =>
        LET code == Upper(Strip(IF app.form = <<>> THEN "" ELSE app.form[1]))
            valid == /\ app.method = "POST"
                     /\ Len(code) = 4
                     /\ \A i \in 1..4 : IndexIn(UpperChars, Ch(code, i)) > 0
            fetch_raises == app.net.kind # "data" \/ AllBlank(app.net.body)
        IN  /\ app.fetch_calls # <<>> => valid /\ app.fetch_calls = <<code>>
            /\ app.pc = "responded" =>
                  /\ valid => app.fetch_calls = <<code>>
                  /\ app.metar = <<>> \/ app.error = <<>>
                  /\ (valid /\ fetch_raises) =>
                        /\ app.metar = <<>>
                        /\ app.error # <<>>
                        /\ app.net.kind # "data" => Contains(app.error[1], app.net.body)
                        /\ app.net.kind = "data" => Contains(app.error[1], "No METAR data")

\* C8 witness: a POST of " kjfk " answered with a decoded report after one
\* fetch of KJFK
C8_Witness ==
    /\ app.pc = "responded"
    /\ app.method = "POST"
    /\ app.form = <<" kjfk ">>
    /\ app.fetch_calls = <<"KJFK">>
    /\ app.metar # <<>>
    /\ app.error = <<>>

\* C9: for every k in 0..999, knots_to_mph(k) is the integer nearest to
\* k * 1.15078, which is never a tie (so half-even and half-up agree), and
\* 0->0, 5->6, 10->12, 15->17, 20->23, 25->29, 30->35, 100->115.
\* (Specification SpecUnit.)
C9_KnotsToMphNearest ==
    (call.fn = "knots_to_mph" /\ ret # <<>>) =>
        LET k == call.arg[1]
            mph == ret[1]
            table == { <<0, 0>>, <<5, 6>>, <<10, 12>>, <<15, 17>>, <<20, 23>>,
                       <<25, 29>>, <<30, 35>>, <<100, 115>> }
        IN  /\ 2 * Abs(100000 * mph - 115078 * k) < 100000
            /\ mph = (2 * 115078 * k + 100000) \div 200000
            /\ \A p \in table : k = p[1] => mph = p[2]

\* C9 witness: the call knots_to_mph(25) has returned 29
C9_Witness == call = [fn |-> "knots_to_mph", arg |-> <<25>>] /\ ret = <<29>>

\* the number a temperature text starts with, and the one in its parentheses
ShowsValues(text, f, c) ==
    /\ StartsWithAt(text, 1, IntToStr(f))
    /\ ~IsDigit(Ch(text, Len(IntToStr(f)) + 1))
    /\ \E p \in 1..Len(text) :
          /\ StartsWithAt(text, p, "(" \o IntToStr(c))
          /\ ~IsDigit(Ch(text, p + 1 + Len(IntToStr(c))))

\* the integer nearest to c * 9/5 + 32 (never a tie: fifths)
NearestFahrenheit(c) == CHOOSE f \in -200..300 : 2 * Abs(5 * f - (9 * c + 160)) < 5

\* C10: in a token [M]tt/[M]dd each value is negated exactly when its own M
\* is there, independently of the other, and converted with
\* round(C * 9/5 + 32): 0->32, 100->212, -40->-40, 20->68, -5->23, -10->14;
\* M00 is 0 C / 32 F.  (Specification SpecUnit.)
C10_TempDewpointSigns ==
    /\ (call.fn = "celsius_to_fahrenheit" /\ ret # <<>>) =>
          LET table == { <<0, 32>>, <<100, 212>>, <<-40, -40>>, <<20, 68>>,
                         <<-5, 23>>, <<-10, 14>> }
          IN  /\ ret[1] = NearestFahrenheit(call.arg[1])
              /\ \A p \in table : call.arg[1] = p[1] => ret[1] = p[2]
    /\ (call.fn = "parse_temp_dewpoint" /\ ret # <<>>) =>
          \A tn \in BOOLEAN, dn \in BOOLEAN, t \in TempSamples, d \in TempSamples :
              call.arg[1] = TempToken(tn, t, dn, d) =>
                  LET temp_c == IF tn THEN -t ELSE t
                      dew_c == IF dn THEN -d ELSE d
                  IN  /\ ShowsValues(ret[1][1], NearestFahrenheit(temp_c), temp_c)
                      /\ ShowsValues(ret[1][2], NearestFahrenheit(dew_c), dew_c)

\* C10 witness: parse_temp_dewpoint("05/M02") has returned 41 F (5 C) and
\* 28 F (-2 C)
C10_Witness ==
    /\ call = [fn |-> "parse_temp_dewpoint", arg |-> <<"05/M02">>]
    /\ ret # <<>>
    /\ ShowsValues(ret[1][1], 41, 5)
    /\ ShowsValues(ret[1][2], 28, -2)

\* the qualitative labels parse_visibility writes
VisibilityLabels == {"excellent", "good", "moderate", "poor", "reduced"}

LabelsIn(text) == { l \in VisibilityLabels : Contains(text, l) }

\* the tier of n whole miles, the boundaries 10, 6 and 3 in the higher tier
TierOf(n) ==
    IF n >= 10 THEN "excellent"
    ELSE IF n >= 6 THEN "good"
    ELSE IF n >= 3 THEN "moderate"
    ELSE "poor"

\* whether the call of a helper is over, by a return or by an exception
CallOver == ret # <<>> \/ exc # ""

\* C11: parse_visibility labels a whole-mile token nSM excellent for n >= 10,
\* good for 6 <= n < 10, moderate for 3 <= n < 6 and poor for n < 3; it
\* labels every fractional or mixed token reduced; a 4-digit meters value gets
\* no label.  (Specification SpecUnit.)
C11_VisibilityTiers ==
    (call.fn = "parse_visibility" /\ CallOver) =>
        /\ \A n \in WholeMilesSamples :
              call.arg[1] = WholeMilesToken(n) =>
                  ret # <<>> /\ LabelsIn(ret[1]) = {TierOf(n)}
        /\ \A w \in FractionWholes, n \in FractionNums, d \in FractionDenoms :
              call.arg[1] = FractionToken(w, n, d) =>
                  ret # <<>> /\ LabelsIn(ret[1]) = {"reduced"}
        /\ call.arg[1] \in MetersSamples =>
              ret # <<>> /\ LabelsIn(ret[1]) = {}

\* whether a list handed to parse_clouds holds SKC or CLR
HasClearCode(list) == \E i \in 1..Len(list) : list[i] \in {"SKC", "CLR"}

\* C12: when the list passed to parse_clouds holds SKC or CLR at any position,
\* the result is the clear-skies phrase, whatever layer tokens come before or
\* after it.  (Specification SpecUnit.)
C12_ClearCodeShortCircuits ==
    (call.fn = "parse_clouds" /\ ret # <<>> /\ HasClearCode(call.arg[1])) =>
        ret[1] = "Clear skies"

\* C12 witness: parse_clouds(["FEW030", "CLR", "BKN030CB"]) has returned the
\* clear-skies phrase, a layer on either side of the code
C12_Witness ==
    /\ call = [fn |-> "parse_clouds", arg |-> <<<<"FEW030", "CLR", "BKN030CB">>>>]
    /\ ret = <<"Clear skies">>

\* C13: decode_metar never fills in the flight category: the field is the
\* empty string at every point of the decoding and in the result, no step of
\* decode_metar applying determine_flight_category.
C13_FlightCategoryNeverSet == decoded.flight_category = ""

\* C13 witness: a report with a visibility and a cloud layer, from which a
\* category could be worked out, has been decoded and the field is empty
C13_Witness ==
    /\ pc = "done"
    /\ raw = "KJFK 10SM FEW030"
    /\ decoded.visibility = "Visibility 10 miles or more (excellent)"
    /\ decoded.clouds = "Few clouds at 3,000 feet"
    /\ decoded.flight_category = ""

\* after an optional - or + and an optional VC, the whole token is made of
\* 2-letter codes of WEATHER_CODES
AllRecognizedCodes(token) ==
    LET p1 == IF Ch(token, 1) \in {"-", "+"} THEN 2 ELSE 1
        p2 == IF StartsWithAt(token, p1, "VC") THEN p1 + 2 ELSE p1
        rest == SubSeq(token, p2, Len(token))
    IN  /\ Len(rest) > 0
        /\ Len(rest) % 2 = 0
        /\ \A k \in 1..(Len(rest) \div 2) :
              HasKey(WEATHER_CODES, SubSeq(rest, 2 * k - 1, 2 * k))

\* the tokens at the positions of a set, in the order of the report
RECURSIVE TokensAt(_, _)
TokensAt(positions, from) ==
    IF from >= Len(tokens) THEN <<>>
    ELSE (IF from \in positions THEN <<tokens[from + 1]>> ELSE <<>>)
            \o TokensAt(positions, from + 1)

\* C14: a token contributes to the weather description only if, after an
\* optional -/+ and an optional VC, all of it is recognized 2-letter codes; a
\* token with a valid code followed by unrecognized characters contributes
\* nothing, so the weather field is decoded from the fully recognized tokens
\* alone.
C14_WeatherAllOrNothing ==
    pc = "done" =>
        /\ \A i \in used.weather : AllRecognizedCodes(tokens[i + 1])
        /\ decoded.weather = parse_weather(TokensAt(used.weather, 0))

\* C14 witness: in "KJFK RAXX +SN" the token RAXX (rain, then garbage) has
\* contributed nothing and +SN alone has been decoded
C14_Witness ==
    /\ pc = "done"
    /\ tokens = <<"KJFK", "RAXX", "+SN">>
    /\ used.weather = {2}
    /\ decoded.weather = "Weather: heavy snow"

\* the forms of a decoded wind: nothing, calm, variable direction with a
\* speed, or a direction with a speed and perhaps a gust
IsWindPhrase(text) ==
    \/ text = ""
    \/ text = "Calm winds"
    \/ StartsWithAt(text, 1, "Variable wind at ") /\ StartsWithAt(text, Len(text) - 3, " mph")
    \/ StartsWithAt(text, 1, "Wind from the ") /\ StartsWithAt(text, Len(text) - 3, " mph")

\* C15: the wind field of decode_metar's result is derived text only: empty,
\* the calm phrase, a variable-direction phrase or a fixed-direction phrase
\* with an optional gust; the token it was decoded from never appears in it.
C15_WindIsDerivedText ==
    pc = "done" =>
        /\ IsWindPhrase(decoded.wind)
        /\ \A i \in used.wind : ~Contains(decoded.wind, tokens[i + 1])

\* C16: parse_clouds returns the "not reported" phrase whenever its list
\* yields no decodable layer and holds no SKC/CLR, also when the list is not
\* empty (tokens of the cloud grammar with fewer than 3 altitude digits, or a
\* clear-sky code with digits).  (Specification SpecUnit.)
C16_NoLayerNotReported ==
    (/\ call.fn = "parse_clouds" /\ ret # <<>>
     /\ ~HasClearCode(call.arg[1])
     /\ \A i \in 1..Len(call.arg[1]) : ~IsLayer(call.arg[1][i])) =>
        ret[1] = "Sky conditions not reported"

\* the opening clauses of the summary
Openings ==
    {"It's a clear day", "The sky is overcast", "The sky is mostly cloudy",
     "There are some clouds in the sky", "There are a few clouds",
     "Current conditions"}

\* whether a visibility description counts as notable
NotableVisibility(text) ==
    \E word \in {"poor", "reduced", "moderate"} : Contains(Lower(text), word)

\* C17: the summary is the opening, then the temperature, wind, weather and
\* visibility clauses in that order (each there or not), joined by single
\* spaces and ended by a period; the visibility clause is there exactly when
\* the visibility description mentions poor, reduced or moderate, so an
\* excellent, good or meters-encoded visibility is not in the summary.
C17_SummaryClauseOrder ==
    pc = "done" /\ tokens # <<>> =>
        LET v == IF NotableVisibility(decoded.visibility)
                 THEN " . " \o decoded.visibility ELSE ""
        IN  /\ \E o \in Openings,
                  t \in {"", " with a temperature of " \o decoded.temperature},
                  w \in {"", " and calm winds", " and " \o Lower(decoded.wind)},
                  x \in {"", " . " \o decoded.weather} :
                    decoded.summary = o \o t \o w \o x \o v \o "."
            /\ (decoded.visibility # "" /\ ~NotableVisibility(decoded.visibility)) =>
                  ~Contains(decoded.summary, decoded.visibility)

\* C17 witness: a report with temperature, wind, weather and a reduced
\* visibility has been decoded, and its summary ends with the visibility
\* clause after the weather clause
C17_Witness ==
    /\ pc = "done"
    /\ decoded.temperature # "" /\ decoded.wind # "" /\ decoded.weather # ""
    /\ Contains(decoded.visibility, "reduced")
    /\ Contains(decoded.summary,
                ". " \o decoded.weather \o " . " \o decoded.visibility \o ".")

\* whether the token at a 0-based position exists and satisfies a grammar
TokenIs(position, Grammar(_)) ==
    position < Len(tokens) /\ Grammar(tokens[position + 1])

IsAutoToken(token) == token = "AUTO"

\* the position the cursor has after the optional prefix, the station
\* identifier, the optional time and the optional AUTO
WindPosition ==
    LET afterStation == StationPosition + 1
        afterTime == IF TokenIs(afterStation, IsObsTimeToken)
                     THEN afterStation + 1 ELSE afterStation
    IN  IF TokenIs(afterTime, IsAutoToken) THEN afterTime + 1 ELSE afterTime

\* the position right after the wind token and its variability range, or the
\* wind position itself when no wind token stands there
VisibilityPosition ==
    IF ~TokenIs(WindPosition, IsWindToken) THEN WindPosition
    ELSE IF TokenIs(WindPosition + 1, IsWindVariability) THEN WindPosition + 2
    ELSE WindPosition + 1

\* the field grammars; temperature and dewpoint are the two halves of one
\* token of the temperature/dewpoint grammar
Grammars ==
    {"airport", "observation_time", "wind", "visibility", "weather", "clouds",
     "temperature", "altimeter"}

\* C18, its positions: wind is taken only at the cursor position after the
\* header, visibility only in the run of tokens right after it; a wind or
\* visibility grammar that does not match there leaves the field empty,
\* whatever comes later; no token is assigned to two field grammars.
C18_PositionalOnce ==
    /\ used.wind \subseteq {WindPosition}
    /\ \A i \in used.visibility :
          /\ i >= VisibilityPosition
          /\ \A k \in VisibilityPosition..i : TokenIs(k, IsVisibilityToken)
    /\ (pc = "done" /\ ~TokenIs(WindPosition, IsWindToken)) => decoded.wind = ""
    /\ (pc = "done" /\ ~TokenIs(VisibilityPosition, IsVisibilityToken)) =>
          decoded.visibility = ""
    /\ \A f \in Grammars, g \in Grammars : f # g => used[f] \cap used[g] = {}

====
